---------------------------- MODULE Spec2Model ----------------------------
(*************************************************************************)
(* A model of update_automation.py: the change-set resolvers, the diff   *)
(* reduction of SQL files, the destination naming, the package assembly  *)
(* loop, the archive step and the exit status of a run.                  *)
(*                                                                       *)
(* Text is modelled by TLA+ strings, handled character by character the  *)
(* way the Python string methods handle it.  Paths follow posixpath.     *)
(*************************************************************************)
EXTENDS Integers, Sequences, FiniteSets, TLC

VARIABLES
    pc,               \* position of the run in the __main__ block
    run,              \* number of the current run (or call) on this filesystem
    fs,               \* the update roots: existing path |-> run that created it (0: before the first run)
    files_to_prepare, \* __main__: the resolved change set
    resolver,         \* which resolver ran and how the git call ended
    update_folder,    \* __main__: the package folder of this run
    full_path,        \* create_update_folder: the base path probed
    idx,              \* copy_files_to_update: position of the for loop
    success_count,    \* copy_files_to_update
    skip_count,       \* copy_files_to_update
    written,          \* destination files written in this run: [src, dest]
    last,             \* what the last loop iteration met: [file, diff, outcome]
    zip_file,         \* __main__: what zip_update_folder returned
    exit_code,        \* exit status of the process, -1 while it runs
    exception,        \* the uncaught exception that ended the run, or "none"
    fn_in,            \* input of a function applied on its own
    fn_out,           \* its result
    fn_pc             \* "ready" before the application, "done" after

mainvars == <<pc, run, fs, files_to_prepare, resolver, update_folder, full_path,
              idx, success_count, skip_count, written, last, zip_file,
              exit_code, exception>>
fnvars == <<fn_in, fn_out, fn_pc>>
vars == <<mainvars, fnvars>>

-----------------------------------------------------------------------------
(* Bounds of the model. *)

MaxLines == 2
MaxConfLines == 2
MaxPathLen == 4
MaxFiles == 2
MaxCalls == 3
MaxPre == 2

-----------------------------------------------------------------------------
(* Python values and string methods. *)

None == [isNone |-> TRUE, val |-> ""]
Some(s) == [isNone |-> FALSE, val |-> s]

\* Python truthiness of an Optional[str]: None and "" are false.
Truthy(o) == ~o.isNone /\ o.val # ""

CharAt(s, i) == SubSeq(s, i, i)

StartsWith(s, p) == Len(s) >= Len(p) /\ SubSeq(s, 1, Len(p)) = p

EndsWith(s, p) == Len(s) >= Len(p) /\ SubSeq(s, Len(s) - Len(p) + 1, Len(s)) = p

SetMin(S) == CHOOSE x \in S : \A y \in S : x <= y

SetMax(S) == CHOOSE x \in S : \A y \in S : x >= y

\* Positions of s whose character is not in chars.
Kept(s, chars) == {i \in 1..Len(s) : CharAt(s, i) \notin chars}

LStrip(s, chars) ==
    IF Kept(s, chars) = {} THEN "" ELSE SubSeq(s, SetMin(Kept(s, chars)), Len(s))

RStrip(s, chars) ==
    IF Kept(s, chars) = {} THEN "" ELSE SubSeq(s, 1, SetMax(Kept(s, chars)))

Whitespace == {" ", "\n", "\t", "\r"}

Strip(s) == RStrip(LStrip(s, Whitespace), Whitespace)

StripChars(s, chars) == RStrip(LStrip(s, chars), chars)

\* s.split(sep) for a one-character sep: always at least one piece, the k-th
\* running from after the (k-1)-th separator to before the k-th.
Split(s, sep) ==
    LET P == {i \in 1..Len(s) : CharAt(s, i) = sep}
        Nth(k) == IF k = 0 THEN 0
                  ELSE IF k > Cardinality(P) THEN Len(s) + 1
                  ELSE CHOOSE i \in P : Cardinality({j \in P : j < i}) = k - 1
    IN [k \in 1..(Cardinality(P) + 1) |-> SubSeq(s, Nth(k - 1) + 1, Nth(k) - 1)]

\* sep.join(pieces)
RECURSIVE Join(_, _)
Join(pieces, sep) ==
    IF pieces = <<>> THEN ""
    ELSE IF Len(pieces) = 1 THEN pieces[1]
    ELSE pieces[1] \o sep \o Join(Tail(pieces), sep)

\* s.replace(from, to) for a one-character from.
RECURSIVE Replace(_, _, _)
Replace(s, from, to) ==
    IF s = "" THEN ""
    ELSE (IF CharAt(s, 1) = from THEN to ELSE CharAt(s, 1)) \o Replace(Tail(s), from, to)

LowerChar(c) ==
    CASE c = "S" -> "s" [] c = "Q" -> "q" [] c = "L" -> "l" [] OTHER -> c

RECURSIVE Lower(_)
Lower(s) == IF s = "" THEN "" ELSE LowerChar(CharAt(s, 1)) \o Lower(Tail(s))

\* Index of the last occurrence of the character c in s, 0 when there is none.
RFind(s, c) == SetMax({0} \cup {i \in 1..Len(s) : CharAt(s, i) = c})

-----------------------------------------------------------------------------
(* extract_changed_lines *)

IsMetadataLine(line) ==
    \/ StartsWith(line, "diff --git")
    \/ StartsWith(line, "index ")
    \/ StartsWith(line, "--- ")
    \/ StartsWith(line, "+++ ")
    \/ StartsWith(line, "@@")

\* The added-line test without its '+++' exclusion.
IsAnyPlusLine(line) == StartsWith(line, "+")

\* The added-line test taken as "not a removed line", which keeps context lines.
IsNotRemovedLine(line) == ~StartsWith(line, "-")

IsAddedLine(line) == StartsWith(line, "+") /\ ~StartsWith(line, "+++")

RECURSIVE changed_lines(_)
changed_lines(lines) ==
    IF lines = <<>> THEN <<>>
    ELSE LET line == Head(lines)
             rest == changed_lines(Tail(lines))
         IN IF IsMetadataLine(line) THEN rest
            ELSE IF IsAddedLine(line) THEN <<SubSeq(line, 2, Len(line))>> \o rest
            ELSE rest

extract_changed_lines(diff_content) ==
    IF diff_content = "" \/ Strip(diff_content) = "" THEN None
    ELSE LET lines == Split(diff_content, "\n")
             result == LStrip(Join(changed_lines(lines), "\n"), {"\n", " ", ";"})
         IN IF Strip(result) # "" THEN Some(result) ELSE None

-----------------------------------------------------------------------------
(* The diff texts extract_changed_lines is applied to: up to MaxLines     *)
(* lines, each a line start followed by a line body.                      *)

LineStarts ==
    {"", "+", "-", " ", "++", "+++", "+++ ", "--- ", "@@", "index ", "diff --git",
     "+@@", "+--- ", "+index ", "+diff --git", "+;", "+ ", "+ ;"}

LineBodies == {"", "x", " b/q.sql"}

DiffLines == {s \o b : s \in LineStarts, b \in LineBodies}

RECURSIVE TextsOf(_, _)
TextsOf(lineset, n) ==
    IF n = 0 THEN {<<>>}
    ELSE LET shorter == TextsOf(lineset, n - 1)
         IN shorter \cup {<<l>> \o t : l \in lineset, t \in {u \in shorter : Len(u) = n - 1}}

DiffTexts(n) == {Join(t, "\n") : t \in TextsOf(DiffLines, n)}

\* The variables of a run, at rest while a function is applied on its own.
RunIdle ==
    /\ pc = "idle"
    /\ files_to_prepare = <<>>
    /\ resolver = [name |-> "none", outcome |-> "none"]
    /\ update_folder = ""
    /\ full_path = ""
    /\ idx = 0
    /\ success_count = 0
    /\ skip_count = 0
    /\ written = {}
    /\ last = [file |-> "", diff |-> None, outcome |-> "none"]
    /\ zip_file = None
    /\ exit_code = -1
    /\ exception = "none"

MainIdle ==
    /\ RunIdle
    /\ run = 0
    /\ fs = [p \in {} |-> 0]

InitExtract ==
    /\ MainIdle
    /\ fn_in \in DiffTexts(MaxLines)
    /\ fn_out = None
    /\ fn_pc = "ready"

ApplyExtract ==
    /\ fn_pc = "ready"
    /\ fn_out' = extract_changed_lines(fn_in)
    /\ fn_pc' = "done"
    /\ UNCHANGED <<fn_in, mainvars>>

NextExtract == ApplyExtract

SpecExtract == InitExtract /\ [][NextExtract]_vars

\* C1 as stated: no line of the result starts with a diff metadata marker, and
\* every line of the result is an input line that begins with '+' (and is not
\* the '+++ ' new-file marker line) with that one '+' removed.
C1_Original ==
    (fn_pc = "done" /\ ~fn_out.isNone) =>
        LET inp == Split(fn_in, "\n")
            out == Split(fn_out.val, "\n")
        IN \A i \in 1..Len(out) :
              /\ ~IsMetadataLine(out[i])
              /\ \E j \in 1..Len(inp) :
                    /\ StartsWith(inp[j], "+")
                    /\ ~StartsWith(inp[j], "+++ ")
                    /\ out[i] = Tail(inp[j])

\* C1 as amended: every line of the result comes from an input line that begins
\* with '+' but not with '+++' (so from no metadata line): a line after the
\* first is that input line without its leading '+'; the first line is that,
\* with its leading spaces and semicolons trimmed as well.  The content of an
\* added line may itself start with a marker ('+@@ x' gives '@@ x').
C1_AddedLinesOnly ==
    (fn_pc = "done" /\ ~fn_out.isNone) =>
        LET inp == Split(fn_in, "\n")
            out == Split(fn_out.val, "\n")
            Added == {j \in 1..Len(inp) :
                         StartsWith(inp[j], "+") /\ ~StartsWith(inp[j], "+++")}
        IN \A i \in 1..Len(out) :
              \E j \in Added :
                 out[i] = IF i = 1 THEN LStrip(Tail(inp[j]), {" ", ";"})
                                   ELSE Tail(inp[j])

\* C1 witness: two added lines, the first trimmed, the second keeping a content
\* that starts with the hunk marker.
C1_Witness == fn_pc = "done" /\ fn_in = "+ ;x\n+@@" /\ fn_out = Some("x\n@@")

-----------------------------------------------------------------------------
(* Path utilities: posixpath.dirname, basename, join, abspath, and        *)
(* path_to_folder_name, is_sql_file.                                      *)

cwd == "/w"

AllSlashes(s) == \A i \in 1..Len(s) : CharAt(s, i) = "/"

Dirname(p) ==
    LET head == SubSeq(p, 1, RFind(p, "/"))
    IN IF head # "" /\ ~AllSlashes(head) THEN RStrip(head, {"/"}) ELSE head

Basename(p) == SubSeq(p, RFind(p, "/") + 1, Len(p))

PathJoin(a, b) ==
    IF StartsWith(b, "/") THEN b
    ELSE IF a = "" \/ EndsWith(a, "/") THEN a \o b
    ELSE a \o "/" \o b

\* os.path.abspath of a path with no '.', '..' or doubled-slash part.
Abspath(p) == IF StartsWith(p, "/") THEN p ELSE PathJoin(cwd, p)

path_to_folder_name(file_path) ==
    Replace(Replace(Dirname(file_path), "/", "_"), "\\", "_")

is_sql_file(file_path) == EndsWith(Lower(file_path), ".sql")

-----------------------------------------------------------------------------
(* path_to_folder_name applied to two paths: a relative directory of     *)
(* fewer than MaxPathLen characters, then a file name.                    *)

PathChars == {"a", "b", "/", "_", "\\"}

RECURSIVE StringsOver(_, _)
StringsOver(chars, n) ==
    IF n = 0 THEN {""}
    ELSE LET shorter == StringsOver(chars, n - 1)
         IN shorter \cup {c \o t : c \in chars, t \in {u \in shorter : Len(u) = n - 1}}

FileNames == {"x", "y"}

\* A relative directory as git prints it: no empty component.
IsRelativeDir(d) ==
    /\ d # ""
    /\ ~StartsWith(d, "/")
    /\ ~EndsWith(d, "/")
    /\ \A i \in 1..(Len(d) - 1) : SubSeq(d, i, i + 1) # "//"

SomePaths(n) ==
    {f : f \in FileNames}
       \cup {d \o "/" \o f :
                d \in {e \in StringsOver(PathChars, n - 1) : IsRelativeDir(e)},
                f \in FileNames}

InitFolderName ==
    /\ MainIdle
    /\ fn_in \in SomePaths(MaxPathLen) \X SomePaths(MaxPathLen)
    /\ fn_out = <<"", "">>
    /\ fn_pc = "ready"

ApplyFolderName ==
    /\ fn_pc = "ready"
    /\ fn_out' = <<path_to_folder_name(fn_in[1]), path_to_folder_name(fn_in[2])>>
    /\ fn_pc' = "done"
    /\ UNCHANGED <<fn_in, mainvars>>

NextFolderName == ApplyFolderName

SpecFolderName == InitFolderName /\ [][NextFolderName]_vars

\* C6: two files of the same directory get the same subfolder name, two files of
\* different directories get different subfolder names, and the name is the
\* directory portion with every '/' and '\' replaced by '_'.
C6_FolderNames ==
    fn_pc = "done" =>
        /\ Dirname(fn_in[1]) = Dirname(fn_in[2]) => fn_out[1] = fn_out[2]
        /\ Dirname(fn_in[1]) # Dirname(fn_in[2]) => fn_out[1] # fn_out[2]
        /\ \A k \in 1..2 :
              /\ Len(fn_out[k]) = Len(Dirname(fn_in[k]))
              /\ \A i \in 1..Len(fn_out[k]) :
                    CharAt(fn_out[k], i) =
                        IF CharAt(Dirname(fn_in[k]), i) \in {"/", "\\"} THEN "_"
                        ELSE CharAt(Dirname(fn_in[k]), i)

-----------------------------------------------------------------------------
(* create_update_folder, lines 162-178: the update root.                  *)

default_root == "updates"

ConfKeyLine(line) == StartsWith(line, "update_path")

\* line.split('=', 1)[1]: the text after the first '='.
AfterFirstEquals(line) == Join(Tail(Split(line, "=")), "=")

\* The for loop over the lines of update.conf, from update_path as it stands.
RECURSIVE ScanConf(_, _)
ScanConf(lines, update_path) ==
    IF lines = <<>> THEN [exception |-> "none", update_path |-> update_path]
    ELSE LET line == Strip(Head(lines))
         IN IF ConfKeyLine(line)
            THEN IF Len(Split(line, "=")) < 2
                 THEN [exception |-> "IndexError", update_path |-> update_path]
                 ELSE LET path_str == StripChars(Strip(AfterFirstEquals(line)), {"'", "\""})
                      IN [exception |-> "none",
                          update_path |-> IF path_str # "" THEN Abspath(path_str)
                                          ELSE update_path]
            ELSE ScanConf(Tail(lines), update_path)

\* conf: whether update.conf exists, whether it can be read, and its lines.
ResolveUpdateRoot(conf) ==
    LET update_path == PathJoin(cwd, default_root)
    IN IF ~conf.exists \/ ~conf.readable
       THEN [exception |-> "none", update_path |-> update_path]
       ELSE ScanConf(conf.lines, update_path)

ConfLines ==
    {"update_path=/opt/u\n", "update_path = '/opt/u'\n", "  update_path=\"/opt/u\"\n",
     "update_path\n", "update_path /opt/u\n", "update_path=\n", "update_path=''\n",
     "# the update root\n", "root=/srv\n", "\n", "update_path=/opt/u"}

ConfFiles ==
    {[exists |-> FALSE, readable |-> FALSE, lines |-> <<>>]}
        \cup {[exists |-> TRUE, readable |-> r, lines |-> l] :
                 r \in BOOLEAN, l \in TextsOf(ConfLines, MaxConfLines)}

\* What lines 162-178 can come to, over the update.conf files above.
UpdateRoots == {ResolveUpdateRoot(conf) : conf \in ConfFiles}

InitConf ==
    /\ MainIdle
    /\ fn_in \in ConfFiles
    /\ fn_out = [exception |-> "none", update_path |-> ""]
    /\ fn_pc = "ready"

ApplyConf ==
    /\ fn_pc = "ready"
    /\ fn_out' = ResolveUpdateRoot(fn_in)
    /\ fn_pc' = "done"
    /\ UNCHANGED <<fn_in, mainvars>>

NextConf == ApplyConf

SpecConf == InitConf /\ [][NextConf]_vars

\* A well-formed update_path line: the key, optional blanks, '=', a value.
WellFormedValues(line) ==
    {v \in {"/opt/u"} :
        \E q \in {"", "'", "\""}, sp \in {"", " "} :
            Strip(line) = "update_path" \o sp \o "=" \o sp \o q \o v \o q}

\* C8: a missing or unreadable update.conf gives the default root, and every
\* malformed line is ignored without error, so that the root is the default or
\* the value of a well-formed update_path line.
C8_ConfNeverFails ==
    fn_pc = "done" =>
        /\ fn_out.exception = "none"
        /\ (~fn_in.exists \/ ~fn_in.readable) => fn_out.update_path = "/w/updates"
        /\ \/ fn_out.update_path = "/w/updates"
           \/ \E i \in 1..Len(fn_in.lines) :
                 \E v \in WellFormedValues(fn_in.lines[i]) :
                    fn_out.update_path = Abspath(v)

-----------------------------------------------------------------------------
(* create_update_folder, lines 180-202, and zip_update_folder,            *)
(* lines 264-273: the names and the probe for an unused one.              *)

today_str == "02-11-2026"

FolderName(project_name) ==
    IF project_name # "" THEN "update-" \o project_name \o "-" \o today_str
    ELSE "update-" \o today_str

\* while os.path.exists(unique_path): unique_path = f"{full_path}-v{counter}"
RECURSIVE ProbeFolder(_, _, _, _)
ProbeFolder(existing, base, unique_path, counter) ==
    IF unique_path \in existing
    THEN ProbeFolder(existing, base, base \o "-v" \o ToString(counter), counter + 1)
    ELSE [path |-> unique_path, counter |-> counter]

\* The probe with its counter started at 1.
UniqueFolderFromOne(existing, base) == ProbeFolder(existing, base, base, 1)

UniqueFolder(existing, base) == ProbeFolder(existing, base, base, 2)

ZipName(parent_dir, base_name, counter) ==
    PathJoin(parent_dir, base_name \o "-v" \o ToString(counter) \o ".zip")

RECURSIVE ProbeZip(_, _, _, _, _)
ProbeZip(existing, parent_dir, base_name, unique_zip_path, counter) ==
    IF unique_zip_path \in existing
    THEN ProbeZip(existing, parent_dir, base_name,
                  ZipName(parent_dir, base_name, counter), counter + 1)
    ELSE [path |-> unique_zip_path, counter |-> counter]

\* The probe with an if in place of the while.
UniqueZipOnce(existing, folder) ==
    LET parent_dir == Dirname(folder)
        base_name == Basename(folder)
        zip_path == PathJoin(parent_dir, base_name \o ".zip")
    IN IF zip_path \in existing
       THEN [path |-> ZipName(parent_dir, base_name, 2), counter |-> 3]
       ELSE [path |-> zip_path, counter |-> 2]

UniqueZip(existing, folder) ==
    LET parent_dir == Dirname(folder)
        base_name == Basename(folder)
    IN ProbeZip(existing, parent_dir, base_name,
                PathJoin(parent_dir, base_name \o ".zip"), 2)

\* The entry of fs for a path created in run r (ZipFile(.., 'w') truncates a
\* file that is there).
Created(f, path, r) == [q \in DOMAIN f \cup {path} |-> IF q = path THEN r ELSE f[q]]

-----------------------------------------------------------------------------
(* The inputs of a run.                                                   *)

ProjectNames == {"", "p"}

\* The project name of the run modelled step by step.
RunProjects == {""}

Paths == {"a/b/x.txt", "a_b/x.txt", "q.SQL"}

RECURSIVE ListsOf(_, _)
ListsOf(S, n) ==
    IF n = 0 THEN {<<>>}
    ELSE LET shorter == ListsOf(S, n - 1)
         IN shorter \cup {<<x>> \o t : x \in S, t \in {u \in shorter : Len(u) = n - 1}}

Distinct(l) == \A i, j \in 1..Len(l) : i # j => l[i] # l[j]

\* What git diff --name-only prints: distinct paths, one a line.
ChangeSets == {l \in ListsOf(Paths, MaxFiles) : Distinct(l)}

NameOnlyOutput(l) == IF l = <<>> THEN "" ELSE Join(l, "\n") \o "\n"

\* result.stdout.strip().splitlines(), then the filter [f for f in files if f].
ParseNameOnly(stdout) ==
    SelectSeq(Split(Strip(stdout), "\n"), LAMBDA f : f # "")

\* How a git call ends: it returns, exits non-zero (CalledProcessError) or
\* cannot be started (FileNotFoundError).  git diff of one file prints the
\* file's bytes, which text=True may fail to decode (UnicodeDecodeError);
\* --name-only prints quoted, plain names.
ResolverOutcomes == {"ok", "CalledProcessError", "FileNotFoundError"}

GitOutcomes == ResolverOutcomes \cup {"UnicodeDecodeError"}

DiffHeader == "--- a/q.sql\n+++ b/q.sql\n@@ -1,2 +1,2 @@\n"

SqlDiffs ==
    {"",
     DiffHeader \o " SELECT 1;\n-DROP TABLE t;\n",
     DiffHeader \o " SELECT 1;\n+ALTER TABLE t ADD COLUMN c;\n"}

PreBase == PathJoin(PathJoin(cwd, default_root), FolderName(""))

Versioned(base, k) == IF k = 1 THEN base ELSE base \o "-v" \o ToString(k)

PrePaths ==
    {Versioned(PreBase, k) : k \in 1..MaxPre}
        \cup {Versioned(PreBase, k) \o ".zip" : k \in 1..MaxPre}

NoFile == [file |-> "", diff |-> None, outcome |-> "none"]

FnIdle ==
    /\ fn_in = ""
    /\ fn_out = ""
    /\ fn_pc = "idle"

Init ==
    /\ pc = "start"
    /\ run = 1
    /\ \E S \in SUBSET PrePaths : fs = [q \in S |-> 0]
    /\ files_to_prepare = <<>>
    /\ resolver = [name |-> "none", outcome |-> "none"]
    /\ update_folder = ""
    /\ full_path = ""
    /\ idx = 0
    /\ success_count = 0
    /\ skip_count = 0
    /\ written = {}
    /\ last = NoFile
    /\ zip_file = None
    /\ exit_code = -1
    /\ exception = "none"
    /\ FnIdle

Exit(code, exc) ==
    /\ pc' = "exit"
    /\ exit_code' = code
    /\ exception' = exc

-----------------------------------------------------------------------------
(* The resolvers and the __main__ block.                                  *)

\* get_staged_files, called at line 360 (no --commits).
GetStagedFiles ==
    /\ pc = "start"
    /\ \E outcome \in ResolverOutcomes, l \in ChangeSets :
          /\ resolver' = [name |-> "get_staged_files", outcome |-> outcome]
          /\ files_to_prepare' = IF outcome = "ok"
                                 THEN ParseNameOnly(NameOnlyOutput(l))
                                 ELSE <<>>
    /\ pc' = "resolved"
    /\ UNCHANGED <<exit_code, exception>>
    /\ UNCHANGED <<run, fs, update_folder, full_path, idx, success_count,
                   skip_count, written, last, zip_file, fnvars>>

\* get_files_between_commits, called at line 356 (--commits given).
GetFilesBetweenCommits ==
    /\ pc = "start"
    /\ \E outcome \in ResolverOutcomes, l \in ChangeSets :
          /\ resolver' = [name |-> "get_files_between_commits", outcome |-> outcome]
          /\ IF outcome \in {"ok", "CalledProcessError"}
             THEN /\ files_to_prepare' = IF outcome = "ok"
                                         THEN ParseNameOnly(NameOnlyOutput(l))
                                         ELSE <<>>
                  /\ pc' = "resolved"
                  /\ UNCHANGED <<exit_code, exception>>
             ELSE /\ Exit(1, outcome)
                  /\ UNCHANGED files_to_prepare
    /\ UNCHANGED <<run, fs, update_folder, full_path, idx, success_count,
                   skip_count, written, last, zip_file, fnvars>>

\* Lines 362-364: nothing to do.
NoFilesExit ==
    /\ pc = "resolved"
    /\ files_to_prepare = <<>>
    /\ Exit(0, "none")
    /\ UNCHANGED <<run, fs, files_to_prepare, resolver, update_folder, full_path,
                   idx, success_count, skip_count, written, last, zip_file, fnvars>>

\* create_update_folder, called at line 367.
CreateUpdateFolder ==
    /\ pc = "resolved"
    /\ files_to_prepare # <<>>
    /\ \E project_name \in RunProjects, root \in UpdateRoots, makedirs_ok \in BOOLEAN :
          LET base == PathJoin(root.update_path, FolderName(project_name))
              unique_path == UniqueFolder(DOMAIN fs, base).path
          IN IF root.exception # "none"
             THEN /\ Exit(1, root.exception)
                  /\ UNCHANGED <<fs, update_folder, full_path>>
             ELSE /\ full_path' = base
                  /\ IF makedirs_ok /\ unique_path \notin DOMAIN fs
                     THEN /\ fs' = Created(fs, unique_path, run)
                          /\ update_folder' = unique_path
                          /\ pc' = "copy"
                          /\ UNCHANGED <<exit_code, exception>>
                     ELSE /\ Exit(1, "none")
                          /\ UNCHANGED <<fs, update_folder>>
    /\ idx' = 1
    /\ UNCHANGED <<run, files_to_prepare, resolver, success_count, skip_count,
                   written, last, zip_file, fnvars>>

\* get_sql_changes: the diff text git returned, reduced; None when git exits
\* non-zero.  Any other end of the git call is not caught there.
get_sql_changes(outcome, diff_content) ==
    IF outcome = "ok" THEN extract_changed_lines(diff_content) ELSE None

\* save_sql_changes: False for blank content, else the header and the content
\* are written, which the filesystem lets succeed or not.
save_sql_changes(changed_content, write_ok) ==
    IF changed_content.isNone \/ Strip(changed_content.val) = "" THEN FALSE
    ELSE write_ok

\* What the filesystem and git answer while one file is processed; an answer
\* the code does not get to ask for is left at its first value.
FileOutcomes(file_path) ==
    {[src_exists |-> FALSE, makedirs_ok |-> TRUE, outcome |-> "ok",
      diff_content |-> "", io_ok |-> TRUE],
     [src_exists |-> TRUE, makedirs_ok |-> FALSE, outcome |-> "ok",
      diff_content |-> "", io_ok |-> TRUE]}
       \cup {[src_exists |-> TRUE, makedirs_ok |-> TRUE, outcome |-> o,
              diff_content |-> d, io_ok |-> w] :
                 o \in IF is_sql_file(file_path) THEN GitOutcomes ELSE {"ok"},
                 d \in IF is_sql_file(file_path) THEN SqlDiffs ELSE {""},
                 w \in BOOLEAN}

DestFile(folder, file_path) ==
    PathJoin(PathJoin(folder, path_to_folder_name(file_path)), Basename(file_path))

Counted(ok) ==
    /\ success_count' = IF ok THEN success_count + 1 ELSE success_count
    /\ skip_count' = IF ok THEN skip_count ELSE skip_count + 1

\* One iteration of the for loop of copy_files_to_update, lines 212-252.
CopyFile ==
    /\ pc = "copy"
    /\ idx <= Len(files_to_prepare)
    /\ LET file_path == files_to_prepare[idx]
           dest_file_path == DestFile(update_folder, file_path)
       IN \E e \in FileOutcomes(file_path) :
          LET src_exists == e.src_exists
              makedirs_ok == e.makedirs_ok
              outcome == e.outcome
              diff_content == e.diff_content
              io_ok == e.io_ok
          IN
             IF ~src_exists
             THEN /\ Counted(FALSE)
                  /\ last' = [file |-> file_path, diff |-> None, outcome |-> "missing"]
                  /\ idx' = idx + 1
                  /\ UNCHANGED <<pc, written, exit_code, exception>>
             ELSE IF ~makedirs_ok
             THEN /\ Counted(FALSE)
                  /\ last' = [file |-> file_path, diff |-> None, outcome |-> "no folder"]
                  /\ idx' = idx + 1
                  /\ UNCHANGED <<pc, written, exit_code, exception>>
             ELSE IF is_sql_file(file_path)
             THEN IF outcome \notin {"ok", "CalledProcessError"}
                  THEN /\ Exit(1, outcome)
                       /\ last' = [file |-> file_path, diff |-> None, outcome |-> "raised"]
                       /\ UNCHANGED <<idx, success_count, skip_count, written>>
                  ELSE LET changed_content == get_sql_changes(outcome, diff_content)
                           saved == Truthy(changed_content)
                                       /\ save_sql_changes(changed_content, io_ok)
                       IN /\ Counted(saved)
                          /\ written' = IF saved
                                        THEN written \cup {[src |-> file_path,
                                                            dest |-> dest_file_path]}
                                        ELSE written
                          /\ last' = [file |-> file_path,
                                      diff |-> IF outcome = "ok" THEN Some(diff_content)
                                               ELSE None,
                                      outcome |-> IF saved THEN "created"
                                                  ELSE IF Truthy(changed_content)
                                                  THEN "not written" ELSE "no changes"]
                          /\ idx' = idx + 1
                          /\ UNCHANGED <<pc, exit_code, exception>>
             ELSE /\ Counted(io_ok)
                  /\ written' = IF io_ok
                                THEN written \cup {[src |-> file_path,
                                                    dest |-> dest_file_path]}
                                ELSE written
                  /\ last' = [file |-> file_path, diff |-> None,
                              outcome |-> IF io_ok THEN "copied" ELSE "not copied"]
                  /\ idx' = idx + 1
                  /\ UNCHANGED <<pc, exit_code, exception>>
    /\ UNCHANGED <<run, fs, files_to_prepare, resolver, update_folder, full_path,
                   zip_file, fnvars>>

\* copy_files_to_update returns; lines 370-383 with --no-zip or without a
\* processed file.
FinishWithoutZip ==
    /\ pc = "copy"
    /\ idx > Len(files_to_prepare)
    /\ IF success_count > 0 THEN Exit(0, "none") ELSE Exit(1, "none")
    /\ UNCHANGED <<run, fs, files_to_prepare, resolver, update_folder, full_path,
                   idx, success_count, skip_count, written, last, zip_file, fnvars>>

\* copy_files_to_update returns; lines 370-378: zip_update_folder, which
\* catches whatever the archive writer raises and may leave a partial archive.
ZipUpdateFolder ==
    /\ pc = "copy"
    /\ idx > Len(files_to_prepare)
    /\ success_count > 0
    /\ \E zip_ok \in BOOLEAN, opened \in BOOLEAN :
          LET unique_zip_path == UniqueZip(DOMAIN fs, update_folder).path
          IN /\ fs' = IF zip_ok \/ opened THEN Created(fs, unique_zip_path, run) ELSE fs
             /\ zip_file' = IF zip_ok THEN Some(unique_zip_path) ELSE None
    /\ Exit(0, "none")
    /\ UNCHANGED <<run, files_to_prepare, resolver, update_folder, full_path,
                   idx, success_count, skip_count, written, last, fnvars>>

Next ==
    \/ GetStagedFiles
    \/ GetFilesBetweenCommits
    \/ NoFilesExit
    \/ CreateUpdateFolder
    \/ CopyFile
    \/ FinishWithoutZip
    \/ ZipUpdateFolder

Spec == Init /\ [][Next]_vars

-----------------------------------------------------------------------------
(* Claims about a run.                                                    *)

\* The k-th name the probes try: the base, then base-v2, base-v3, ...
FolderVersion(base, k) == IF k = 1 THEN base ELSE base \o "-v" \o ToString(k)

ZipVersion(folder, k) ==
    IF k = 1 THEN folder \o ".zip" ELSE folder \o "-v" \o ToString(k) \o ".zip"

\* p is the first of the names that is not in existing.
FirstUnusedFolder(existing, base, p) ==
    \E k \in 1..(Cardinality(existing) + 1) :
        /\ p = FolderVersion(base, k)
        /\ p \notin existing
        /\ \A j \in 1..(k - 1) : FolderVersion(base, j) \in existing

FirstUnusedZip(existing, folder, p) ==
    \E k \in 1..(Cardinality(existing) + 1) :
        /\ p = ZipVersion(folder, k)
        /\ p \notin existing
        /\ \A j \in 1..(k - 1) : ZipVersion(folder, j) \in existing

\* C2: whatever exists before the run, every path that was there stays as it
\* was, and a path the run creates did not exist before: it is the first unused
\* of base, base-v2, base-v3, ... for the package folder, and of folder.zip,
\* folder-v2.zip, ... for the archive.
C2_NothingOverwritten ==
    [][/\ \A p \in DOMAIN fs : p \in DOMAIN fs' /\ fs'[p] = fs[p]
       /\ \A p \in DOMAIN fs' \ DOMAIN fs :
             \/ /\ pc = "resolved"
                /\ update_folder' = p
                /\ FirstUnusedFolder(DOMAIN fs, full_path', p)
             \/ /\ pc = "copy"
                /\ zip_file' \in {None, Some(p)}
                /\ FirstUnusedZip(DOMAIN fs, update_folder, p)
       /\ update_folder' # update_folder => update_folder' \in DOMAIN fs' \ DOMAIN fs
       /\ zip_file' # zip_file => zip_file'.val \in DOMAIN fs' \ DOMAIN fs]_vars

\* C2 witness (scenario 3): the folder of the day and two archives were there;
\* the run made folder-v2 and its archive folder-v2-v2.zip beside them.
C2_Witness ==
    /\ pc = "exit"
    /\ DOMAIN fs = {PreBase, PreBase \o ".zip", PreBase \o "-v2.zip",
                    PreBase \o "-v2", PreBase \o "-v2-v2.zip"}
    /\ fs[PreBase] = 0 /\ fs[PreBase \o ".zip"] = 0 /\ fs[PreBase \o "-v2.zip"] = 0
    /\ update_folder = PreBase \o "-v2"
    /\ zip_file = Some(PreBase \o "-v2-v2.zip")

\* The resolver raised instead of returning a change set.
ResolverRaised == exception # "none" /\ exception = resolver.outcome

\* C3: the exit status is zero when the resolved change set is empty, zero when
\* at least one file was processed (also when the archive step failed), non-zero
\* when the change set is not empty and no file was processed, and non-zero
\* when the package folder could not be created.
C3_ExitStatus ==
    pc = "exit" =>
        /\ (~ResolverRaised /\ files_to_prepare = <<>>) => exit_code = 0
        /\ success_count > 0 => exit_code = 0
        /\ (files_to_prepare # <<>> /\ success_count = 0) => exit_code # 0
        /\ (files_to_prepare # <<>> /\ update_folder = "") => exit_code # 0

\* C4: when git fails under either resolver (non-zero exit, or no git to start),
\* the resolver returns the empty list and no exception ends the process.
C4_ResolverFailureIsEmpty ==
    resolver.outcome \in {"CalledProcessError", "FileNotFoundError"} =>
        /\ exception = "none"
        /\ files_to_prepare = <<>>
        /\ pc \in {"resolved", "exit"}

\* C5: no two entries of the change set are written to the same destination.
C5_OneEntryPerDestination ==
    \A w1, w2 \in written : w1.dest = w2.dest => w1.src = w2.src

SqlSuffixes ==
    {"." \o a \o b \o c : a \in {"s", "S"}, b \in {"q", "Q"}, c \in {"l", "L"}}

NamedSql(f) == Len(f) >= 4 /\ SubSeq(f, Len(f) - 3, Len(f)) \in SqlSuffixes

\* Every line of the diff is a header, a removed line or a context line.
NoAddedLines(d) ==
    \A i \in 1..Len(Split(d, "\n")) :
        LET line == Split(d, "\n")[i]
        IN ~StartsWith(line, "+") \/ StartsWith(line, "+++ ")

\* C7: the loop iteration of a .sql file (in any case) whose diff has no added
\* line writes no destination file, leaves the success count and adds a skip.
C7_NoAddedLinesIsSkip ==
    [][(/\ pc = "copy"
        /\ idx' = idx + 1
        /\ NamedSql(last'.file)
        /\ ~last'.diff.isNone
        /\ NoAddedLines(last'.diff.val))
       => /\ written' = written
          /\ success_count' = success_count
          /\ skip_count' = skip_count + 1]_vars

\* C7 witness: q.SQL, whose diff removes a line and keeps one, was the second
\* file; the first was copied, q.SQL was skipped and not written.
C7_Witness ==
    /\ pc = "copy"
    /\ idx = 3
    /\ last.file = "q.SQL"
    /\ last.diff = Some(DiffHeader \o " SELECT 1;\n-DROP TABLE t;\n")
    /\ last.outcome = "no changes"
    /\ success_count = 1
    /\ skip_count = 1
    /\ \A w \in written : w.src # "q.SQL"

\* C9: copy_files_to_update never aborts: while it runs every file visited is a
\* success or a skip, and it returns having visited every file.
C9_LoopNeverAborts ==
    /\ pc = "copy" => success_count + skip_count = idx - 1
    /\ (pc = "exit" /\ update_folder # "") =>
          /\ exception = "none"
          /\ idx = Len(files_to_prepare) + 1
          /\ success_count + skip_count = Len(files_to_prepare)

-----------------------------------------------------------------------------
(* create_update_folder and zip_update_folder called again and again on   *)
(* one filesystem, each call creating the path its probe returned.        *)
(* fn_out is the list of the calls: the base, the path, the suffix.       *)

InitNaming ==
    /\ RunIdle
    /\ run = 0
    /\ \E S \in SUBSET PrePaths : fs = [q \in S |-> 0]
    /\ fn_in = ""
    /\ fn_out = <<>>
    /\ fn_pc = "naming"

\* create_update_folder with no update.conf, its makedirs succeeding.
NamingCreateFolder ==
    /\ fn_pc = "naming"
    /\ run < MaxCalls
    /\ \E project_name \in ProjectNames :
          LET base == PathJoin(PathJoin(cwd, default_root), FolderName(project_name))
              probe == UniqueFolder(DOMAIN fs, base)
          IN /\ probe.path \notin DOMAIN fs
             /\ fs' = Created(fs, probe.path, run + 1)
             /\ fn_out' = Append(fn_out,
                                 [kind |-> "folder", base |-> base, path |-> probe.path,
                                  suffix |-> IF probe.path = base THEN 1
                                             ELSE probe.counter - 1])
    /\ run' = run + 1
    /\ UNCHANGED <<pc, files_to_prepare, resolver, update_folder, full_path, idx,
                   success_count, skip_count, written, last, zip_file, exit_code,
                   exception, fn_in, fn_pc>>

\* zip_update_folder of a folder that is there, the archive written.
NamingZipFolder ==
    /\ fn_pc = "naming"
    /\ run < MaxCalls
    /\ \E folder \in {q \in DOMAIN fs : ~EndsWith(q, ".zip")} :
          LET probe == UniqueZip(DOMAIN fs, folder)
          IN /\ fs' = Created(fs, probe.path, run + 1)
             /\ fn_out' = Append(fn_out,
                                 [kind |-> "zip", base |-> folder, path |-> probe.path,
                                  suffix |-> IF probe.counter = 2 THEN 1
                                             ELSE probe.counter - 1])
    /\ run' = run + 1
    /\ UNCHANGED <<pc, files_to_prepare, resolver, update_folder, full_path, idx,
                   success_count, skip_count, written, last, zip_file, exit_code,
                   exception, fn_in, fn_pc>>

NextNaming == NamingCreateFolder \/ NamingZipFolder

SpecNaming == InitNaming /\ [][NextNaming]_vars

\* C10: over successive calls with the same base name, each creating the path
\* its probe returned, the version suffixes (1 for the bare base) grow strictly,
\* so none is chosen twice, whatever existed at first; and the path chosen is
\* the base with that suffix.
C10_SuffixesGrow ==
    /\ \A i, j \in 1..Len(fn_out) :
          (i < j /\ fn_out[i].kind = fn_out[j].kind /\ fn_out[i].base = fn_out[j].base)
              => fn_out[i].suffix < fn_out[j].suffix
    /\ \A i \in 1..Len(fn_out) :
          fn_out[i].path = IF fn_out[i].kind = "folder"
                           THEN FolderVersion(fn_out[i].base, fn_out[i].suffix)
                           ELSE ZipVersion(fn_out[i].base, fn_out[i].suffix)

\* C10 witness: with update-<day>-v2 there at first, two calls made the bare
\* folder and then -v3; a third archived the bare folder.
C10_Witness ==
    /\ Len(fn_out) = 3
    /\ fn_out[1] = [kind |-> "folder", base |-> PreBase, path |-> PreBase, suffix |-> 1]
    /\ fn_out[2] = [kind |-> "folder", base |-> PreBase,
                    path |-> PreBase \o "-v3", suffix |-> 3]
    /\ fn_out[3].kind = "zip" /\ fn_out[3].base = PreBase

=============================================================================
